---- MODULE Spec2Model ----
(***************************************************************************)
(* go-argue: a debate between two Ollama models driven by a Bubble Tea     *)
(* event loop.  The module models debateModel.Update (the orchestrator),   *)
(* the command returned by debateModel.generateResponse (the receive loop) *)
(* and the goroutine of OllamaClient.GenerateResponse (the streaming       *)
(* client), with the channels between them.                                *)
(*                                                                         *)
(* Strings are sequences of one-character strings, so that concatenation   *)
(* and trimming are computed; the error text is a TLA+ string.             *)
(*                                                                         *)
(* Spec     Update under every message of the debate its switch handles.   *)
(* SpecRun  Update under the messages the program itself produces.         *)
(* SpecGen  one command: the client goroutine against the receive loop.    *)
(* SpecLive, SpecGenLive: SpecRun and SpecGen with weak fairness.          *)
(* SpecStart  the keys, with the first command running beside Update.      *)
(* SpecCancel, SpecCancelLive, SpecCancelFair: one call whose caller may   *)
(* cancel; fair to the client, or to the client and the receive loop.      *)
(* SpecMain  the validations main runs before the TUI.                     *)
(* SpecPrompt  one call of BuildDebatePrompt and FormatHistory.            *)
(* SpecView  SpecRun in a terminal that is resized.                        *)
(* In Spec and SpecRun a command is one step: the message it returns is    *)
(* any member of CmdResults, the messages SpecGen's runs end with.         *)
(***************************************************************************)
EXTENDS Integers, Sequences, FiniteSets, TLC

\* ------------------------------------------------------------------ bounds
MaxTopicLen   == 2   \* longest value typed into the text input
MaxTurns      == 2   \* longest history
MaxContentLen == 2   \* longest Content of a Turn
MaxGens       == 4   \* generateResponse commands returned in one run
MaxRecords    == 2   \* lines the transport delivers in one response
MaxCatalog    == 2   \* models in the answer of /api/tags

\* -------------------------------------------------------------- constants
stateInput    == 0
stateDebating == 1
stateStopped  == 2
stateError    == 3

model1Name == "model1"
model2Name == "model2"

TopicChars == {" ", "a"}          \* characters the user types
Whitespace == {" ", "\t", "\n"}   \* what strings.TrimSpace removes
ChunkChars == {"x"}               \* characters of the generated text

NoMsg == [type |-> "none", fullResponse |-> <<>>, err |-> ""]

\* ---------------------------------------------------------------- strings
RECURSIVE TrimLeft(_)
TrimLeft(s) ==
    IF s # <<>> /\ Head(s) \in Whitespace THEN TrimLeft(Tail(s)) ELSE s

RECURSIVE TrimRight(_)
TrimRight(s) ==
    IF s # <<>> /\ s[Len(s)] \in Whitespace
    THEN TrimRight(SubSeq(s, 1, Len(s) - 1))
    ELSE s

\* A validation that forgets to trim.
TrimSpaceForgotten(s) == s

TrimSpace(s) == TrimRight(TrimLeft(s))

\* The response field of a record: empty, or one increment of text.
Increments == {<<c>> : c \in ChunkChars}

\* The error values the client sends, as the text fmt's %v prints.
ErrSend     == "failed to send request"
ErrStatus   == "Ollama API returned status 500"
ErrParse    == "failed to parse response"
ErrRead     == "error reading response"
ErrCanceled == "context canceled"

NoErr == ""

VARIABLES
    textInput,     \* m.textInput.Value()
    topic,         \* m.topic
    history,       \* m.history: sequence of [ModelName, Content]
    currentTurn,   \* m.currentTurn
    isGenerating,  \* m.isGenerating
    state,         \* m.state
    errorMsg,      \* m.errorMsg
    cmds,          \* generateResponse commands in flight
    nextGen,       \* number of generateResponse commands returned so far
    quitCmd,       \* a tea.Quit command has been returned
    closed,        \* indices of the Turns a responseCompleteMsg has finalised
    accum,         \* text of the chunks Update applied since the last command
    gen,           \* one run of a command, step by step: client and receive loop
    startup,       \* the validations main ran before it built the debateModel
    composed,      \* one call of BuildDebatePrompt and FormatHistory, with its results
    window         \* m.width, m.height, m.viewport.Width, m.viewport.Height

vars == <<textInput, topic, history, currentTurn, isGenerating, state,
          errorMsg, cmds, nextGen, quitCmd, closed, accum, gen,
          startup, composed, window>>

session == <<textInput, topic, history, currentTurn, isGenerating, state,
             errorMsg, cmds, nextGen, quitCmd, closed, accum,
             startup, composed, window>>

\* ------------------------------------------------- the streaming client
\* One call of OllamaClient.GenerateResponse: the goroutine's position, the
\* unbuffered responseChan (a value is offered while pc = "send"), the
\* errorChan of capacity 1, and the context of the call.
NewCall ==
    [pc          |-> "request",
     nrec        |-> 0,
     pending     |-> <<>>,
     pendingDone |-> FALSE,
     err         |-> NoErr,
     errChan     |-> <<>>,
     errClosed   |-> FALSE,
     respClosed  |-> FALSE,
     ctxDone     |-> FALSE,   \* generateResponse passes context.Background()
     resp        |-> [connected |-> FALSE, status |-> 0],   \* what Do returned
     lines       |-> <<>>,    \* the lines scanner.Scan() has returned
     sent        |-> <<>>]    \* the values received from responseChan

\* A line the scanner returns: empty, not JSON, or a GenerateResponse.
Lines ==
    {[kind |-> "empty", response |-> <<>>, done |-> FALSE],
     [kind |-> "bad",   response |-> <<>>, done |-> FALSE]}
    \cup [kind : {"record"}, response : {<<>>} \cup Increments, done : BOOLEAN]

\* errorChan <- e; return: the deferred closes follow.
SendError(c, e) ==
    [c EXCEPT !.err = e, !.errChan = Append(@, e), !.pc = "closeErr"]

\* What httpClient.Do returns: an error, or a response with its status.
Responses ==
    {[connected |-> FALSE, status |-> 0],
     [connected |-> TRUE,  status |-> 200],
     [connected |-> TRUE,  status |-> 500]}

\* A client that reads the body whatever the status is.
ClientResponseAnyStatus(c, r) ==
    IF ~r.connected THEN SendError([c EXCEPT !.resp = r], ErrSend)
    ELSE [c EXCEPT !.resp = r, !.pc = "scan"]

\* The error check on Do and the check of resp.StatusCode.
ClientResponse(c, r) ==
    IF ~r.connected THEN SendError([c EXCEPT !.resp = r], ErrSend)
    ELSE IF r.status # 200 THEN SendError([c EXCEPT !.resp = r], ErrStatus)
    ELSE [c EXCEPT !.resp = r, !.pc = "scan"]

\* httpClient.Do and the status check.  Do fails at once on a context that
\* is already done.
ClientRequest(c) ==
    IF c.pc # "request" THEN {}
    ELSE {ClientResponse(c, r) : r \in IF c.ctxDone
                                       THEN {r \in Responses : ~r.connected}
                                       ELSE Responses}

\* A scan loop that looks at the done flag before it hands the text over.
ClientLineDoneFirst(c, line) ==
    IF c.ctxDone THEN SendError(c, ErrCanceled)
    ELSE IF line.kind = "empty" THEN c
    ELSE IF line.kind = "bad" THEN SendError(c, ErrParse)
    ELSE IF line.done THEN [c EXCEPT !.pc = "closeErr"]
    ELSE IF line.response # <<>>
         THEN [c EXCEPT !.pc = "send", !.pending = line.response,
                        !.pendingDone = line.done]
    ELSE c

\* A scan loop that passes over a line it cannot parse.
ClientLineSkipsBad(c, line) ==
    IF c.ctxDone THEN SendError(c, ErrCanceled)
    ELSE IF line.kind = "empty" \/ line.kind = "bad" THEN c
    ELSE IF line.response # <<>>
         THEN [c EXCEPT !.pc = "send", !.pending = line.response,
                        !.pendingDone = line.done]
    ELSE IF line.done THEN [c EXCEPT !.pc = "closeErr"]
    ELSE c

\* A scan loop in front of a buffered channel: it reads on while the text
\* of the last record waits for its receiver.
ClientLineNoWait(c, line) ==
    IF c.ctxDone THEN SendError(c, ErrCanceled)
    ELSE IF line.kind = "empty" THEN c
    ELSE IF line.kind = "bad" THEN SendError(c, ErrParse)
    ELSE IF line.done THEN [c EXCEPT !.pc = "closeErr"]
    ELSE c

\* The body of the scan loop for one line.
ClientLine(c, line) ==
    IF c.ctxDone THEN SendError(c, ErrCanceled)
    ELSE IF line.kind = "empty" THEN c
    ELSE IF line.kind = "bad" THEN SendError(c, ErrParse)
    ELSE IF line.response # <<>>
         THEN [c EXCEPT !.pc = "send", !.pending = line.response,
                        !.pendingDone = line.done]
    ELSE IF line.done THEN [c EXCEPT !.pc = "closeErr"]
    ELSE c

\* scanner.Scan(): a line, the end of the body, or a read error.
ClientScan(c) ==
    IF c.pc # "scan" THEN {}
    ELSE {[c EXCEPT !.pc = "closeErr"], SendError(c, ErrRead)}
         \cup (IF c.nrec < MaxRecords
                THEN {ClientLine([c EXCEPT !.nrec = @ + 1,
                                            !.lines = Append(@, line)], line)
                        : line \in Lines}
                ELSE {})

\* A plain send in place of the select: nothing but a receiver ends it.
ClientSendBlocks(c) == {}

\* The select on the handoff takes the ctx.Done() case.
ClientSendCanceled(c) ==
    IF c.pc = "send" /\ c.ctxDone THEN {SendError(c, ErrCanceled)} ELSE {}

\* A handoff after which the loop reads on, whatever the done flag was.
AfterSendScansOn(c) ==
    [c EXCEPT !.pc = "scan",
              !.pending = <<>>, !.pendingDone = FALSE,
              !.sent = Append(@, [rec |-> c.nrec, text |-> c.pending])]

\* The select on the handoff takes the send case: the receiver has the value.
AfterSend(c) ==
    [c EXCEPT !.pc = IF c.pendingDone THEN "closeErr" ELSE "scan",
              !.pending = <<>>, !.pendingDone = FALSE,
              !.sent = Append(@, [rec |-> c.nrec, text |-> c.pending])]

\* A return that closes errorChan and leaves responseChan open.
ClientReturnLeavesOpen(c) ==
    IF c.pc = "closeErr" THEN {[c EXCEPT !.errClosed = TRUE, !.pc = "closeResp"]}
    ELSE IF c.pc = "closeResp" THEN {[c EXCEPT !.pc = "done"]}
    ELSE {}

\* The deferred calls, last deferred first: close(errorChan), close(responseChan).
ClientReturn(c) ==
    IF c.pc = "closeErr" THEN {[c EXCEPT !.errClosed = TRUE, !.pc = "closeResp"]}
    ELSE IF c.pc = "closeResp" THEN {[c EXCEPT !.respClosed = TRUE, !.pc = "done"]}
    ELSE {}

ClientStep(c) ==
    ClientRequest(c) \cup ClientScan(c) \cup ClientSendCanceled(c) \cup ClientReturn(c)

\* ------------------------------------------------- the catalog of models
CatalogNames == {model1Name, model2Name, "other"}

\* The "models" array of the answer of /api/tags: objects with a name.
Catalogs ==
    UNION {[1..n -> [name : CatalogNames]] : n \in 0..MaxCatalog}

\* What httpClient.Get returns, and whether the body decodes.
TagsResponses ==
    {[connected |-> FALSE, status |-> 0,   parses |-> FALSE, models |-> <<>>],
     [connected |-> TRUE,  status |-> 500, parses |-> FALSE, models |-> <<>>],
     [connected |-> TRUE,  status |-> 200, parses |-> FALSE, models |-> <<>>]}
    \cup [connected : {TRUE}, status : {200}, parses : {TRUE}, models : Catalogs]

ListModels(r) ==
    IF ~r.connected
    THEN [names |-> <<>>, err |-> "failed to connect to Ollama"]
    ELSE IF r.status # 200
    THEN [names |-> <<>>,
          err   |-> "Ollama API returned status " \o ToString(r.status)]
    ELSE IF ~r.parses
    THEN [names |-> <<>>, err |-> "failed to parse Ollama response"]
    ELSE [names |-> [i \in 1..Len(r.models) |-> r.models[i].name],
          err   |-> NoErr]

\* A validation that looks at the first model of the listing only.
ValidateModelFirstOnly(r, modelName) ==
    LET l == ListModels(r)
    IN  IF l.err # NoErr THEN "failed to list models: " \o l.err
        ELSE IF l.names # <<>> /\ l.names[1] = modelName THEN NoErr
        ELSE "model '" \o modelName \o "' not found in Ollama"

\* The error ValidateModel returns, NoErr for nil.
ValidateModel(r, modelName) ==
    LET l == ListModels(r)
    IN  IF l.err # NoErr THEN "failed to list models: " \o l.err
        ELSE IF \E i \in 1..Len(l.names) : l.names[i] = modelName THEN NoErr
        ELSE "model '" \o modelName \o "' not found in Ollama"

\* ------------------------------------------------ the command's receive loop
\* The closure of generateResponse once the client is called: the client's
\* call, the strings.Builder, and the tea.Msg the command returns.
NewGen == [call |-> NewCall, fullResponse |-> <<>>, msg |-> NoMsg]

CompleteMsg(full) == [type |-> "responseCompleteMsg", fullResponse |-> full, err |-> NoErr]

ErrorMsg(e) == [type |-> "responseErrorMsg", fullResponse |-> <<>>, err |-> e]

\* select: case chunk, ok := <-responseChan, with ok: the handoff.
RecvChunk(g) ==
    IF g.msg = NoMsg /\ g.call.pc = "send"
    THEN {[g EXCEPT !.fullResponse = @ \o g.call.pending,
                    !.call = AfterSend(g.call)]}
    ELSE {}

\* select: case chunk, ok := <-responseChan, with !ok: the channel is closed.
RecvClosed(g) ==
    IF g.msg = NoMsg /\ g.call.respClosed
    THEN {[g EXCEPT !.msg = CompleteMsg(g.fullResponse)]}
    ELSE {}

\* select: case err, ok := <-errorChan, with ok: an error value is received.
\* (With !ok the loop goes round again: no step.)
RecvError(g) ==
    IF g.msg = NoMsg /\ g.call.errChan # <<>>
    THEN {[g EXCEPT !.msg = ErrorMsg(Head(g.call.errChan)),
                    !.call.errChan = Tail(@)]}
    ELSE {}

\* The goroutine of the client runs on, whatever the loop does.
ClientRuns(g) == {[g EXCEPT !.call = c] : c \in ClientStep(g.call)}

\* Every message a command can return, over all runs of client and loop.
RECURSIVE Returns(_)
Returns(g) ==
    IF g.msg # NoMsg THEN {g.msg}
    ELSE UNION {Returns(g2) : g2 \in RecvChunk(g) \cup RecvClosed(g)
                                      \cup RecvError(g) \cup ClientRuns(g)}

CmdResults == Returns(NewGen)

\* --------------------------------------------------------- the orchestrator
getNextModel(ct) == IF ct = 0 THEN model1Name ELSE model2Name

\* A toggle that leaves the turn where it is.
switchTurnStuck(ct) == ct

\* A toggle that counts the turns up.
switchTurnCounts(ct) == ct + 1

switchTurn(ct) == IF ct = 0 THEN 1 ELSE 0

Turn(name, content) == [ModelName |-> name, Content |-> content]

\* A chunk handler that opens a Turn for every chunk.
ChunkHistoryAlwaysNew(h, name, chunk) == Append(h, Turn(name, chunk))

\* responseChunkMsg: the history after the chunk is applied.
ChunkHistory(h, name, chunk) ==
    IF Len(h) > 0 /\ h[Len(h)].ModelName = name
    THEN [h EXCEPT ![Len(h)].Content = @ \o chunk]
    ELSE Append(h, Turn(name, chunk))

\* responseCompleteMsg: the history after the full response is recorded.
CompleteHistory(h, name, full) ==
    IF Len(h) = 0 \/ h[Len(h)].Content # full
    THEN IF Len(h) > 0 /\ h[Len(h)].ModelName = name
         THEN [h EXCEPT ![Len(h)].Content = full]
         ELSE Append(h, Turn(name, full))
    ELSE h

\* An error handler that discards the Turn the failed model was writing.
ErrorHistoryDropsLast(h) ==
    IF h = <<>> THEN h ELSE SubSeq(h, 1, Len(h) - 1)

\* responseErrorMsg: the history is not touched.
ErrorHistory(h) == h

\* A submit that binds the trimmed topic.
BoundTopicTrimmed(v) == TrimSpace(v)

\* m.topic = topic: the value of the text input, as typed.
BoundTopic(v) == v

\* fmt.Sprintf("Error: %v", msg.err)
ErrorText(e) == "Error: " \o e

\* A command that keeps the last Turn of the history only.
NewCmdLastTurnOnly(n, ct, h, tp) ==
    [id           |-> n,
     modelName    |-> getNextModel(ct),
     topic        |-> tp,
     history      |-> IF h = <<>> THEN h ELSE <<h[Len(h)]>>,
     isFirstTurn  |-> (Len(h) = 0)]

\* The command m.generateResponse() returns: the closure holds a copy of m.
NewCmd(n, ct, h, tp) ==
    [id           |-> n,
     modelName    |-> getNextModel(ct),
     topic        |-> tp,
     history      |-> h,
     isFirstTurn  |-> (Len(h) = 0)]

\* ------------------------------------------------------------ the prompt
\* A prompt is a sequence of pieces: the fixed texts and the model names are
\* one piece each, the topic and the contents are there character by
\* character.
OpeningInstruction ==
    "You will be presenting the opening argument. Take a clear position on this topic and present your initial arguments.\n\n"

OpposingInstruction ==
    "You will be responding to the opening argument. Take an opposing or alternative perspective and present your counterarguments.\n\n"

NextInstruction ==
    "Provide your next argument or response. Be thoughtful, specific, and engage directly with the previous points made.\n"

FirstInstruction ==
    "Provide your opening argument. Be thoughtful, specific, and clearly state your position.\n"

\* fmt.Sprintf("[%s]: %s", turn.ModelName, turn.Content)
FormatTurn(t) == <<"[", t.ModelName, "]: ">> \o t.Content

\* A history formatter that keeps the last Turn only.
FormatHistoryLastOnly(h) ==
    IF h = <<>> THEN <<>> ELSE FormatTurn(h[Len(h)])

\* A history formatter that ends every entry, the last too, with the
\* separator.
RECURSIVE FormatHistoryTrailingSep(_)
FormatHistoryTrailingSep(h) ==
    IF h = <<>> THEN <<>>
    ELSE FormatTurn(h[1]) \o <<"\n\n">> \o FormatHistoryTrailingSep(Tail(h))

RECURSIVE FormatHistory(_)
FormatHistory(h) ==
    IF h = <<>> THEN <<>>
    ELSE IF Len(h) = 1 THEN FormatTurn(h[1])
    ELSE FormatTurn(h[1]) \o <<"\n\n">> \o FormatHistory(Tail(h))

\* A composer that gives every first turn the opening instruction.
BuildDebatePromptAlwaysOpening(tp, h, currentModel, isFirstTurn) ==
    <<"You are participating in a debate on the topic: \"">> \o tp \o <<"\"\n\n">>
    \o <<"You are ", currentModel,
         ". Your role is to present arguments and respond to your opponent's points.\n\n">>
    \o (IF isFirstTurn THEN <<OpeningInstruction>> ELSE <<>>)
    \o (IF Len(h) > 0
        THEN <<"Previous discussion:\n">> \o FormatHistory(h) \o <<"\n">>
        ELSE <<>>)
    \o (IF Len(h) > 0 THEN <<NextInstruction>> ELSE <<FirstInstruction>>)

BuildDebatePrompt(tp, h, currentModel, isFirstTurn) ==
    <<"You are participating in a debate on the topic: \"">> \o tp \o <<"\"\n\n">>
    \o <<"You are ", currentModel,
         ". Your role is to present arguments and respond to your opponent's points.\n\n">>
    \o (IF isFirstTurn
        THEN IF Len(h) = 0 THEN <<OpeningInstruction>> ELSE <<OpposingInstruction>>
        ELSE <<>>)
    \o (IF Len(h) > 0
        THEN <<"Previous discussion:\n">> \o FormatHistory(h) \o <<"\n">>
        ELSE <<>>)
    \o (IF Len(h) > 0 THEN <<NextInstruction>> ELSE <<FirstInstruction>>)

\* The prompt the command g builds when the runtime calls it.
Prompt(g) == BuildDebatePrompt(g.topic, g.history, g.modelName, g.isFirstTurn)

\* The GenerateRequest the client marshals for the command g.
Request(g) == [Model |-> g.modelName, Prompt |-> Prompt(g), Stream |-> TRUE]

\* No call of the composer yet.
Uncomposed ==
    [called |-> FALSE, topic |-> <<>>, history |-> <<>>,
     currentModel |-> model1Name, isFirstTurn |-> FALSE,
     prompt |-> <<>>, formatted |-> <<>>]

HistoryFits(h) ==
    /\ Len(h) <= MaxTurns
    /\ \A i \in 1..Len(h) : Len(h[i].Content) <= MaxContentLen

Init ==
    /\ textInput = <<>>
    /\ topic = <<>>
    /\ history = <<>>
    /\ currentTurn = 0
    /\ isGenerating = FALSE
    /\ state = stateInput
    /\ errorMsg = ""
    /\ cmds = {}
    /\ nextGen = 0
    /\ quitCmd = FALSE
    /\ closed = {}
    /\ accum = <<>>
    /\ gen = NewGen
    /\ startup = <<>>
    /\ composed = Uncomposed
    /\ window = [width |-> 0, height |-> 0, vpWidth |-> 0, vpHeight |-> 0]

\* The Turn a responseCompleteMsg finalises: the last one, when it is the
\* active model's (the handler wrote it, or found it equal to the response).
ClosedBy(h, name) ==
    IF Len(h) > 0 /\ h[Len(h)].ModelName = name THEN {Len(h)} ELSE {}

\* A handler that returns a batch of two generateResponse commands.
ScheduleTwice(rest, ct, h, tp) ==
    /\ nextGen + 1 < MaxGens
    /\ nextGen' = nextGen + 2
    /\ cmds' = rest \cup {NewCmd(nextGen + 1, ct, h, tp),
                          NewCmd(nextGen + 2, ct, h, tp)}
    /\ accum' = <<>>

\* A handler that returns no command.
ScheduleNothing(rest, ct, h, tp) ==
    /\ nextGen' = nextGen
    /\ cmds' = rest
    /\ accum' = <<>>

\* return m, m.generateResponse(): one more command in flight.
Schedule(rest, ct, h, tp) ==
    /\ nextGen < MaxGens
    /\ nextGen' = nextGen + 1
    /\ cmds' = rest \cup {NewCmd(nextGen + 1, ct, h, tp)}
    /\ accum' = <<>>

\* The text input component handles a key: a character typed, or backspace.
\* (The tests put the value in with SetValue.)
EditInput(v) ==
    {Append(v, ch) : ch \in IF Len(v) < MaxTopicLen THEN TopicChars ELSE {}}
    \cup (IF v # <<>> THEN {SubSeq(v, 1, Len(v) - 1)} ELSE {})

\* A stop that throws away the Turn still being written.
KeyQuitDropsOpenTurn ==
    /\ state' = IF state = stateDebating THEN stateStopped ELSE state
    /\ quitCmd' = TRUE
    /\ history' = IF history # <<>> /\ Len(history) \notin closed
                  THEN SubSeq(history, 1, Len(history) - 1)
                  ELSE history
    /\ UNCHANGED <<textInput, topic, currentTurn, isGenerating,
                   errorMsg, cmds, nextGen, closed, accum, gen,
                   startup, composed, window>>

\* tea.KeyMsg "ctrl+c" or "q": tea.Quit is returned in every state.
KeyQuit ==
    /\ state' = IF state = stateDebating THEN stateStopped ELSE state
    /\ quitCmd' = TRUE
    /\ UNCHANGED <<textInput, topic, history, currentTurn, isGenerating,
                   errorMsg, cmds, nextGen, closed, accum, gen,
                   startup, composed, window>>

\* An enter that, once the debate is stopped, goes back to ask for a topic.
KeyEnterRestarts ==
    /\ IF state = stateInput
       THEN IF Len(TrimSpace(textInput)) = 0
            THEN /\ errorMsg' = "Topic cannot be empty"
                 /\ UNCHANGED <<topic, state, isGenerating, currentTurn,
                                cmds, nextGen, accum>>
            ELSE /\ topic' = textInput
                 /\ state' = stateDebating
                 /\ errorMsg' = ""
                 /\ isGenerating' = TRUE
                 /\ currentTurn' = 0
                 /\ Schedule(cmds, 0, history, topic')
       ELSE /\ topic' = IF state = stateStopped THEN <<>> ELSE topic
            /\ state' = IF state = stateStopped THEN stateInput ELSE state
            /\ UNCHANGED <<errorMsg, isGenerating, currentTurn,
                           cmds, nextGen, accum>>
    /\ UNCHANGED <<textInput, history, quitCmd, closed, gen,
                   startup, composed, window>>

\* tea.KeyMsg "enter"
KeyEnter ==
    /\ IF state = stateInput
       THEN IF Len(TrimSpace(textInput)) = 0
            THEN /\ errorMsg' = "Topic cannot be empty"
                 /\ UNCHANGED <<topic, state, isGenerating, currentTurn,
                                cmds, nextGen, accum>>
            ELSE /\ topic' = BoundTopic(textInput)
                 /\ state' = stateDebating
                 /\ errorMsg' = ""
                 /\ isGenerating' = TRUE
                 /\ currentTurn' = 0
                 /\ Schedule(cmds, 0, history, topic')
       ELSE UNCHANGED <<topic, state, errorMsg, isGenerating, currentTurn,
                        cmds, nextGen, accum>>
    /\ UNCHANGED <<textInput, history, quitCmd, closed, gen,
                   startup, composed, window>>

\* any other tea.KeyMsg
KeyOther ==
    /\ IF state = stateInput
       THEN textInput' \in EditInput(textInput)
       ELSE UNCHANGED textInput
    /\ UNCHANGED <<topic, history, currentTurn, isGenerating, state, errorMsg,
                   cmds, nextGen, quitCmd, closed, accum, gen,
                   startup, composed, window>>

\* responseChunkMsg
UpdateChunk(chunk) ==
    /\ IF isGenerating
       THEN /\ history' = ChunkHistory(history, getNextModel(currentTurn), chunk)
            /\ HistoryFits(history')
            /\ accum' = accum \o chunk
       ELSE UNCHANGED <<history, accum>>
    /\ UNCHANGED <<textInput, topic, currentTurn, isGenerating, state, errorMsg,
                   cmds, nextGen, quitCmd, closed, gen,
                   startup, composed, window>>

\* responseCompleteMsg, the message the command g returned
UpdateComplete(g, full) ==
    /\ g \in cmds
    /\ CompleteMsg(full) \in CmdResults
    /\ history' = CompleteHistory(history, getNextModel(currentTurn), full)
    /\ HistoryFits(history')
    /\ closed' = closed \cup ClosedBy(history', getNextModel(currentTurn))
    /\ currentTurn' = switchTurn(currentTurn)
    /\ isGenerating' = TRUE
    /\ Schedule(cmds \ {g}, currentTurn', history', topic)
    /\ UNCHANGED <<textInput, topic, state, errorMsg, quitCmd, gen,
                   startup, composed, window>>

\* A failure that ends the debate in stateError.
UpdateErrorFails(g, e) ==
    /\ g \in cmds
    /\ ErrorMsg(e) \in CmdResults
    /\ errorMsg' = ErrorText(e)
    /\ isGenerating' = FALSE
    /\ state' = stateError
    /\ cmds' = cmds \ {g}
    /\ UNCHANGED <<textInput, topic, history, currentTurn, nextGen, quitCmd,
                   closed, accum, gen, startup, composed, window>>

\* responseErrorMsg, the message the command g returned
UpdateError(g, e) ==
    /\ g \in cmds
    /\ ErrorMsg(e) \in CmdResults
    /\ errorMsg' = ErrorText(e)
    /\ history' = ErrorHistory(history)
    /\ currentTurn' = switchTurn(currentTurn)
    /\ isGenerating' = TRUE
    /\ Schedule(cmds \ {g}, currentTurn', history', topic)
    /\ UNCHANGED <<textInput, topic, state, quitCmd, closed, gen,
                   startup, composed, window>>

\* stopDebateMsg
UpdateStop ==
    /\ isGenerating' = FALSE
    /\ state' = stateStopped
    /\ quitCmd' = TRUE
    /\ UNCHANGED <<textInput, topic, history, currentTurn, errorMsg, cmds,
                   nextGen, closed, accum, gen, startup, composed, window>>

Texts == {m.fullResponse : m \in CmdResults}

Errors == {m.err : m \in CmdResults} \ {NoErr}

Next ==
    \/ KeyQuit
    \/ KeyEnter
    \/ KeyOther
    \/ \E chunk \in Increments : UpdateChunk(chunk)
    \/ \E g \in cmds, full \in Texts : UpdateComplete(g, full)
    \/ \E g \in cmds, e \in Errors : UpdateError(g, e)
    \/ UpdateStop

\* Update under every message of the debate its switch handles, whoever sends
\* it (the resizes of the terminal are in SpecView).  The
\* loop leaves when the QuitMsg of tea.Quit reaches it; until then it handles
\* what arrives, and a run that ends there is a prefix of a behaviour.
Spec == Init /\ [][Next]_vars

\* The program as main starts it: the messages are the keys and what the
\* commands return.  Nothing in the repository sends a responseChunkMsg or a
\* stopDebateMsg: the receive loop keeps the chunks in its strings.Builder.
NextRun ==
    \/ KeyQuit
    \/ KeyEnter
    \/ KeyOther
    \/ \E g \in cmds, full \in Texts : UpdateComplete(g, full)
    \/ \E g \in cmds, e \in Errors : UpdateError(g, e)

SpecRun == Init /\ [][NextRun]_vars

\* The sizes a terminal reports.
Sizes == {[Width |-> 80, Height |-> 24], [Width |-> 120, Height |-> 40]}

\* A resize that redraws from an empty history.
UpdateWindowSizeClears(msg) ==
    /\ window' = [width    |-> msg.Width,
                  height   |-> msg.Height,
                  vpWidth  |-> msg.Width,
                  vpHeight |-> msg.Height - 5]
    /\ history' = <<>>
    /\ UNCHANGED <<textInput, topic, currentTurn, isGenerating, state,
                   errorMsg, cmds, nextGen, quitCmd, closed, accum, gen,
                   startup, composed>>

\* tea.WindowSizeMsg
UpdateWindowSize(msg) ==
    /\ window' = IF state = stateDebating \/ state = stateStopped
                 THEN [width    |-> msg.Width,
                       height   |-> msg.Height,
                       vpWidth  |-> msg.Width,
                       vpHeight |-> msg.Height - 5]
                 ELSE [window EXCEPT !.width = msg.Width,
                                     !.height = msg.Height]
    /\ UNCHANGED <<textInput, topic, history, currentTurn, isGenerating, state,
                   errorMsg, cmds, nextGen, quitCmd, closed, accum, gen,
                   startup, composed>>

\* The program as main starts it, in a terminal that is resized.
NextView ==
    \/ NextRun
    \/ \E msg \in Sizes : UpdateWindowSize(msg)

SpecView == Init /\ [][NextView]_vars

\* ------------------------------------- one command's run, step by step
GenClient == gen' \in ClientRuns(gen) /\ UNCHANGED session

GenRecvChunk == gen' \in RecvChunk(gen) /\ UNCHANGED session

GenRecvClosed == gen' \in RecvClosed(gen) /\ UNCHANGED session

GenRecvError == gen' \in RecvError(gen) /\ UNCHANGED session

NextGenRun == GenClient \/ GenRecvChunk \/ GenRecvClosed \/ GenRecvError

SpecGen == Init /\ [][NextGenRun]_vars

\* The command in flight returns and Update handles its message.
Deliver ==
    \E g \in cmds :
        \/ \E full \in Texts : UpdateComplete(g, full)
        \/ \E e \in Errors : UpdateError(g, e)

\* The runtime calls every command it is given and sends Update the message
\* the command returns; a command returns once its client has returned.
SpecLive == SpecRun /\ WF_vars(Deliver)

\* The goroutine of the client and the goroutine of the command are both
\* scheduled: a step that can be taken is taken.
SpecGenLive == SpecGen /\ WF_vars(NextGenRun)

\* ------------------------------ one call under a context that is cancelled
\* cancel(): the caller cancels the context it passed to GenerateResponse.
Cancel(g) ==
    IF g.call.ctxDone THEN {} ELSE {[g EXCEPT !.call.ctxDone = TRUE]}

GenCancel == gen' \in Cancel(gen) /\ UNCHANGED session

NextCancel ==
    \/ GenClient
    \/ GenRecvChunk
    \/ GenRecvClosed
    \/ GenRecvError
    \/ GenCancel

\* The caller receives when it chooses to, and cancels when it chooses to.
SpecCancel == Init /\ [][NextCancel]_vars

\* The goroutine of the client is scheduled; the caller owes nothing.
SpecCancelLive == SpecCancel /\ WF_vars(GenClient)

\* The goroutine of the client is scheduled, and the receive loop of the
\* command goes round its select for as long as it has not returned.
SpecCancelFair ==
    /\ SpecCancel
    /\ WF_vars(GenClient)
    /\ WF_vars(GenRecvChunk \/ GenRecvClosed \/ GenRecvError)

\* --------------------------------------------------- main, before the TUI
\* main validates model1 and then, if that passed, model2; each validation
\* is a request of its own.  The session specifications start where main
\* builds the debateModel and do not follow the validations.
Validate(r) ==
    /\ Len(startup) < 2
    /\ IF startup = <<>> THEN TRUE ELSE startup[Len(startup)].err = NoErr
    /\ LET modelName == IF startup = <<>> THEN model1Name ELSE model2Name
       IN  startup' = Append(startup,
                             [modelName |-> modelName,
                              resp      |-> r,
                              listed    |-> ListModels(r).names,
                              err       |-> ValidateModel(r, modelName)])
    /\ UNCHANGED <<textInput, topic, history, currentTurn, isGenerating, state,
                   errorMsg, cmds, nextGen, quitCmd, closed, accum, gen,
                   composed, window>>

NextMain == \E r \in TagsResponses : Validate(r)

SpecMain == Init /\ [][NextMain]_vars

\* ------------------------------------------ the composer, called directly
\* The strings of at most n characters.
Strings(chars, n) == UNION {[1..k -> chars] : k \in 0..n}

\* The histories a caller can pass: any Turns, whoever wrote them.
Histories ==
    UNION {[1..k -> [ModelName : {model1Name, model2Name},
                     Content   : Strings(ChunkChars, MaxContentLen)]]
             : k \in 0..MaxTurns}

\* BuildDebatePrompt(tp, h, currentModel, isFirstTurn) and FormatHistory(h),
\* called as the tests call them.
Compose(tp, h, currentModel, isFirstTurn) ==
    /\ composed' = [called       |-> TRUE,
                    topic        |-> tp,
                    history      |-> h,
                    currentModel |-> currentModel,
                    isFirstTurn  |-> isFirstTurn,
                    prompt       |-> BuildDebatePrompt(tp, h, currentModel,
                                                       isFirstTurn),
                    formatted    |-> FormatHistory(h)]
    /\ UNCHANGED <<textInput, topic, history, currentTurn, isGenerating, state,
                   errorMsg, cmds, nextGen, quitCmd, closed, accum, gen,
                   startup, window>>

\* One call, on any arguments.
NextPrompt ==
    /\ ~composed.called
    /\ \E tp \in Strings(TopicChars, MaxTopicLen), h \in Histories,
          currentModel \in {model1Name, model2Name}, isFirstTurn \in BOOLEAN :
           Compose(tp, h, currentModel, isFirstTurn)

SpecPrompt == Init /\ [][NextPrompt]_vars

\* ------------------------- the session up to the first command's return
\* The goroutine and the receive loop of the command in flight take a step
\* of their own between two messages of Update.
CmdStep == cmds # {} /\ NextGenRun

NextStart ==
    \/ KeyQuit
    \/ KeyEnter
    \/ KeyOther
    \/ CmdStep

SpecStart == Init /\ [][NextStart]_vars

\* ------------------------------------------------------------------ claims
Blank(v) == \A i \in 1..Len(v) : v[i] \in Whitespace

ModelOf(ct) == IF ct = 0 THEN model1Name ELSE model2Name

\* The commands a step puts in flight.
Scheduled == cmds' \ cmds

\* C1. Alternation: any two adjacent Turns of the history have different
\* participants.
Alternation ==
    \A i \in 1..(Len(history) - 1) :
        history[i].ModelName # history[i + 1].ModelName

\* Two finalised Turns, one of each model.
AlternationWitness ==
    /\ Len(history) >= 2
    /\ {1, 2} \subseteq closed

\* C2. Once a responseCompleteMsg has finalised a Turn, no later step changes
\* its participant or its content.
ClosedTurnsImmutable ==
    [][\A i \in closed : i <= Len(history') /\ history'[i] = history[i]]_vars

\* C3. A responseCompleteMsg handled while debating, whose text is the text of
\* the chunks applied since its command was returned, leaves one more
\* finalised Turn than the history held when the command was returned.
HistoryGrowth ==
    [][\A g \in cmds, full \in Texts :
          (UpdateComplete(g, full) /\ state = stateDebating /\ full = accum)
          => Cardinality(closed')
               = Cardinality({i \in closed : i <= Len(g.history)}) + 1]_vars

\* C4. A responseErrorMsg leaves the history as it is: as many Turns, each
\* with its participant and its content.
FailureKeepsHistory ==
    [][\A g \in cmds, e \in Errors :
          UpdateError(g, e) => history' = history]_vars

\* The first command failed after a chunk of it had opened a Turn.
FailureKeepsHistoryWitness ==
    /\ nextGen = 2
    /\ errorMsg = "Error: " \o ErrStatus
    /\ Len(history) = 1
    /\ history[1] = [ModelName |-> model1Name, Content |-> <<"x">>]

\* C5. A responseErrorMsg handled while debating records the cause in
\* errorMsg, toggles the turn, stays in stateDebating and returns exactly one
\* command, for the model whose turn it now is.
RecoverableFailure ==
    [][\A g \in cmds, e \in Errors :
          (UpdateError(g, e) /\ state = stateDebating)
          => /\ errorMsg' = "Error: " \o e
             /\ currentTurn' = 1 - currentTurn
             /\ state' = stateDebating
             /\ isGenerating'
             /\ nextGen' = nextGen + 1
             /\ Cardinality(Scheduled) = 1
             /\ cmds' = (cmds \ {g}) \cup Scheduled
             /\ \A n \in Scheduled : n.modelName = ModelOf(currentTurn')]_vars

\* The second model failed, and a command of the first model is in flight.
RecoverableFailureWitness ==
    /\ state = stateDebating
    /\ nextGen = 3
    /\ errorMsg = "Error: " \o ErrParse
    /\ Len(history) = 1
    /\ currentTurn = 0
    /\ \E n \in cmds : n.id = 3 /\ n.modelName = model1Name

\* C6. A command whose client sent an error returns a responseErrorMsg, never
\* a responseCompleteMsg, however the goroutine and the select interleave.
FailureSurfaced ==
    (gen.call.err # NoErr /\ gen.msg # NoMsg)
    => gen.msg.type = "responseErrorMsg"

\* C7. Enter in stateInput on a topic that is not blank binds the topic as
\* typed, moves to stateDebating with model1 active and isGenerating set,
\* clears errorMsg, leaves the history empty and returns exactly one command,
\* for model1.
AcceptedSubmit ==
    [][(KeyEnter /\ state = stateInput /\ ~Blank(textInput))
       => /\ topic' = textInput
          /\ state' = stateDebating
          /\ currentTurn' = 0
          /\ isGenerating'
          /\ errorMsg' = ""
          /\ history' = <<>>
          /\ nextGen' = nextGen + 1
          /\ Cardinality(cmds') = 1
          /\ \A n \in cmds' : n.modelName = model1Name]_vars

\* A topic with a leading space was accepted after a rejection.
AcceptedSubmitWitness ==
    /\ state = stateDebating
    /\ topic = <<" ", "a">>
    /\ nextGen = 1
    /\ history = <<>>
    /\ \E n \in cmds : n.modelName = model1Name /\ n.topic = topic

\* C8. Enter in stateInput on a blank topic stays in stateInput with no topic
\* bound and an empty history, leaves the turn, isGenerating and the commands
\* in flight as they are, and sets the validation error.
ValidationRejection ==
    [][(KeyEnter /\ state = stateInput /\ Blank(textInput))
       => /\ state' = stateInput
          /\ topic' = <<>>
          /\ history' = <<>>
          /\ currentTurn' = currentTurn
          /\ isGenerating' = isGenerating
          /\ cmds' = cmds
          /\ nextGen' = nextGen
          /\ errorMsg' = "Topic cannot be empty"]_vars

\* A topic of two spaces was rejected.
ValidationRejectionWitness ==
    /\ state = stateInput
    /\ textInput = <<" ", " ">>
    /\ errorMsg = "Topic cannot be empty"
    /\ topic = <<>>
    /\ cmds = {}

\* C9. Once in stateStopped, no step changes the topic, the history or the
\* turn.
FrozenAfterStop ==
    [][state = stateStopped
       => /\ topic' = topic
          /\ history' = history
          /\ currentTurn' = currentTurn]_vars

\* C10. Once in stateStopped, no step returns a command.
NoSchedulingAfterStop ==
    [][state = stateStopped => (nextGen' = nextGen /\ Scheduled = {})]_vars

\* C11. Once a stop has been handled with a command in flight, the command's
\* client hands over no further chunk and the command returns nothing but the
\* error of a cancelled context.
StopCancelsGeneration ==
    [][(state = stateStopped /\ cmds # {})
       => /\ gen'.call.sent = gen.call.sent
          /\ (gen'.msg # gen.msg => gen'.msg = ErrorMsg(ErrCanceled))]_vars

\* C12. A stop (the quit key or a stopDebateMsg) leaves every Turn of the
\* history as it is, the open one included, and moves stateDebating to
\* stateStopped; a stop in stateStopped leaves the state, the topic, the
\* history and the turn as they are.
StopPreservesHistory ==
    [][(KeyQuit \/ UpdateStop)
       => /\ history' = history
          /\ (state = stateDebating => state' = stateStopped)
          /\ (state = stateStopped
                => /\ state' = stateStopped
                   /\ topic' = topic
                   /\ currentTurn' = currentTurn)]_vars

\* Stopped while the Turn of the active model was still being written.
StopPreservesHistoryWitness ==
    /\ state = stateStopped
    /\ quitCmd
    /\ history # <<>>
    /\ Len(history) \notin closed
    /\ history[Len(history)].ModelName = ModelOf(currentTurn)

\* C13. At most one generateResponse command is in flight, and it is the
\* one returned last: every earlier command has delivered its
\* responseCompleteMsg or responseErrorMsg.
SingleInFlight ==
    /\ Cardinality(cmds) <= 1
    /\ \A g \in cmds : g.id = nextGen

\* The third command is in flight: two have delivered their message.
SingleInFlightWitness ==
    /\ state = stateDebating
    /\ nextGen = 3
    /\ Cardinality(cmds) = 1
    /\ errorMsg # ""
    /\ closed # {}

\* C14. While in stateDebating a command is in flight; and, the commands
\* returning, each command in stateDebating is followed by the next one or by
\* a stop.
NeverStalls ==
    /\ [](state = stateDebating => cmds # {})
    /\ \A n \in 0..(MaxGens - 1) :
          (state = stateDebating /\ nextGen = n)
          ~> (state # stateDebating \/ nextGen > n)

\* The first command completed and the command of model2 is in flight.
NeverStallsWitness ==
    /\ state = stateDebating
    /\ nextGen = 2
    /\ errorMsg = ""
    /\ closed = {1}
    /\ \E g \in cmds : g.id = 2 /\ g.modelName = model2Name

\* A Turn is open while no responseCompleteMsg has finalised it.
OpenTurns == {i \in 1..Len(history) : i \notin closed}

\* C15. The history holds at most one open Turn.
SingleOpenTurn == Cardinality(OpenTurns) <= 1

\* C16. A responseCompleteMsg handled while debating leaves errorMsg empty.
CompleteClearsError ==
    [][\A g \in cmds, full \in Texts :
          (UpdateComplete(g, full) /\ state = stateDebating)
          => errorMsg' = ""]_vars

\* The increments a stream of lines is due to hand over: the texts that are
\* not empty of the records up to and including the first one with done set
\* (a line that is not JSON ends the stream too), each with its position.
RECURSIVE DueFrom(_, _)
DueFrom(ls, i) ==
    IF i > Len(ls) THEN <<>>
    ELSE LET here == IF ls[i].kind = "record" /\ ls[i].response # <<>>
                     THEN <<[rec |-> i, text |-> ls[i].response]>>
                     ELSE <<>>
         IN  IF ls[i].kind = "bad" \/ (ls[i].kind = "record" /\ ls[i].done)
             THEN here
             ELSE here \o DueFrom(ls, i + 1)

Due(ls) == DueFrom(ls, 1)

\* C17. What the caller has received from responseChan, with the value the
\* client is offering, is what the lines read so far are due to hand over:
\* each increment once, in the order of the records.
OrderedIncrements ==
    LET c == gen.call
        offered == IF c.pc = "send"
                   THEN <<[rec |-> c.nrec, text |-> c.pending]>>
                   ELSE <<>>
    IN  c.sent \o offered = Due(c.lines)

\* Two records with text, the second with done set, and the client returned.
OrderedIncrementsWitness ==
    /\ gen.call.pc = "done"
    /\ gen.call.err = NoErr
    /\ Len(gen.call.lines) = 2
    /\ gen.call.lines[2].done
    /\ Len(gen.call.sent) = 2
    /\ gen.fullResponse = <<"x", "x">>

\* The positions of the records read with done set.
DoneRecords ==
    {i \in 1..Len(gen.call.lines) :
        gen.call.lines[i].kind = "record" /\ gen.call.lines[i].done}

\* C18. Once a record with done set is read, the client reads no further
\* line, hands over nothing of a later record, sends no error, and returns.
CompletionTerminates ==
    /\ [](\A i \in DoneRecords :
            /\ Len(gen.call.lines) = i
            /\ gen.call.nrec = i
            /\ gen.call.pc # "scan"
            /\ \A k \in 1..Len(gen.call.sent) : gen.call.sent[k].rec <= i
            /\ gen.call.err = NoErr
            /\ gen.call.errChan = <<>>
            /\ gen.msg.type # "responseErrorMsg")
    /\ (DoneRecords # {}) ~> (gen.call.pc = "done" /\ gen.call.err = NoErr)

\* A record with text, then the record with done set and no text: the
\* client returned and the command returns the text.
CompletionTerminatesWitness ==
    /\ gen.call.pc = "done"
    /\ DoneRecords = {2}
    /\ gen.call.lines[2].response = <<>>
    /\ gen.call.lines[1].response = <<"x">>
    /\ gen.msg = CompleteMsg(<<"x">>)

\* C19. A client that returned without sending an error has read a record
\* with done set.
SuccessNeedsDone ==
    (gen.call.pc = "done" /\ gen.call.err = NoErr) => DoneRecords # {}

\* C20. When Do fails, or the status of the response is not 200, the client
\* reads no line and hands over nothing, and writes one error to errorChan:
\* the status error, with the code, or the error of the failed request.
FailureBeforeRecord ==
    LET c == gen.call
    IN  (c.pc # "request" /\ (~c.resp.connected \/ c.resp.status # 200))
        => /\ c.lines = <<>>
           /\ c.nrec = 0
           /\ c.sent = <<>>
           /\ gen.fullResponse = <<>>
           /\ c.pc \in {"closeErr", "closeResp", "done"}
           /\ c.err = IF c.resp.connected
                      THEN "Ollama API returned status " \o ToString(c.resp.status)
                      ELSE "failed to send request"
           /\ \/ c.errChan = <<c.err>> /\ gen.msg.type # "responseErrorMsg"
              \/ c.errChan = <<>> /\ gen.msg = ErrorMsg(c.err)

\* The backend answered 500 and the command returned the status error.
FailureBeforeRecordWitness ==
    /\ gen.call.resp = [connected |-> TRUE, status |-> 500]
    /\ gen.call.pc = "done"
    /\ gen.call.lines = <<>>
    /\ gen.msg = ErrorMsg(ErrStatus)

\* The positions of the lines read that json.Unmarshal rejects.
BadLines ==
    {i \in 1..Len(gen.call.lines) : gen.call.lines[i].kind = "bad"}

\* C21. When line k does not parse, the caller has received what the lines
\* before k were due to hand over, the client writes the parse error to
\* errorChan and returns, and no later line is read.
MalformedRecord ==
    \A k \in BadLines :
        /\ Len(gen.call.lines) = k
        /\ gen.call.nrec = k
        /\ gen.call.sent = Due(SubSeq(gen.call.lines, 1, k - 1))
        /\ \A j \in 1..Len(gen.call.sent) : gen.call.sent[j].rec < k
        /\ gen.call.pc \in {"closeErr", "closeResp", "done"}
        /\ gen.call.err = "failed to parse response"
        /\ \/ gen.call.errChan = <<gen.call.err>>
           \/ gen.call.errChan = <<>> /\ gen.msg = ErrorMsg(gen.call.err)

\* A record with text was handed over, the second line did not parse, and
\* the command returned the parse error.
MalformedRecordWitness ==
    /\ BadLines = {2}
    /\ gen.call.pc = "done"
    /\ gen.call.sent = <<[rec |-> 1, text |-> <<"x">>]>>
    /\ gen.msg = ErrorMsg(ErrParse)

\* C22. Once the context is cancelled the caller receives no further value
\* from responseChan.
NoHandoffAfterCancel ==
    [][gen.call.ctxDone => gen'.call.sent = gen.call.sent]_vars

\* C23. A client that waits on its send under a cancelled context either has
\* the value taken or returns: the cancellation error written to errorChan,
\* both channels closed.
CancelUnblocks ==
    \A n \in 0..MaxRecords :
        (gen.call.ctxDone /\ gen.call.pc = "send" /\ Len(gen.call.sent) = n)
        ~> \/ Len(gen.call.sent) > n
           \/ /\ gen.call.pc = "done"
              /\ gen.call.err = "context canceled"
              /\ gen.call.errClosed
              /\ gen.call.respClosed

\* The client returned cancelled with a value nobody took.
CancelUnblocksWitness ==
    /\ gen.call.ctxDone
    /\ gen.call.pc = "done"
    /\ gen.call.err = ErrCanceled
    /\ gen.call.pending # <<>>
    /\ gen.call.sent = <<>>
    /\ gen.call.respClosed

\* C24. The client is never more than one increment ahead of its caller, and
\* it reads a line only when every increment so far has been received.
BackPressure ==
    /\ Len(Due(gen.call.lines)) <= Len(gen.call.sent) + 1
    /\ gen.call.pc = "scan" => gen.call.sent = Due(gen.call.lines)

\* The second increment waits for its receiver; the first has been taken.
BackPressureWitness ==
    /\ gen.call.pc = "send"
    /\ ~gen.call.ctxDone
    /\ Len(gen.call.lines) = 2
    /\ Len(gen.call.sent) = 1
    /\ Len(Due(gen.call.lines)) = 2

\* C25. When a responseCompleteMsg is handled while debating, Update has
\* applied the chunks of its text already: the last Turn is the active
\* model's and holds the text.
LiveStreaming ==
    [][\A g \in cmds, full \in Texts :
          (UpdateComplete(g, full) /\ state = stateDebating /\ full # <<>>)
          => /\ accum = full
             /\ history # <<>>
             /\ history[Len(history)]
                  = [ModelName |-> ModelOf(currentTurn), Content |-> full]]_vars

\* C26. After a responseCompleteMsg handled while debating, the last Turn
\* is the Turn of the model that was active, and its content is the text of
\* the message.
FinalPayloadWins ==
    [][\A g \in cmds, full \in Texts :
          (UpdateComplete(g, full) /\ state = stateDebating)
          => /\ history' # <<>>
             /\ history'[Len(history')]
                  = [ModelName |-> ModelOf(currentTurn), Content |-> full]]_vars

\* C27. A responseChunkMsg handled while debating appends its text to the
\* last Turn when that Turn is open and the active model's, and appends a
\* new Turn of the active model otherwise; the state and the turn stay.
IncrementTransition ==
    [][\A chunk \in Increments :
          (UpdateChunk(chunk) /\ state = stateDebating)
          => /\ history' =
                  IF /\ history # <<>>
                     /\ Len(history) \notin closed
                     /\ history[Len(history)].ModelName = ModelOf(currentTurn)
                  THEN [history EXCEPT ![Len(history)].Content = @ \o chunk]
                  ELSE Append(history, [ModelName |-> ModelOf(currentTurn),
                                        Content   |-> chunk])
             /\ state' = state
             /\ currentTurn' = currentTurn]_vars

\* The piece sequence sub stands in p at position q.
At(p, q, sub) ==
    /\ q >= 1
    /\ q + Len(sub) - 1 <= Len(p)
    /\ SubSeq(p, q, q + Len(sub) - 1) = sub

\* The Turns of h stand in p from position q on, one after the other, each
\* as a tag with the name of its model followed by its content.
RECURSIVE TurnsIn(_, _, _)
TurnsIn(p, q, h) ==
    IF h = <<>> THEN TRUE
    ELSE LET entry == <<"[", h[1].ModelName, "]: ">> \o h[1].Content
         IN  \E r \in q..Len(p) :
                 At(p, r, entry) /\ TurnsIn(p, r + Len(entry), Tail(h))

\* C28. The prompt of every command holds the topic as it was bound and,
\* in the order of the history, every Turn: its content with the tag that
\* names its model.
ContextComplete ==
    \A g \in cmds :
        /\ \E q \in 1..Len(Prompt(g)) : At(Prompt(g), q, g.topic)
        /\ TurnsIn(Prompt(g), 1, g.history)

\* A command whose history holds a Turn of each model, both with text.
ContextCompleteWitness ==
    \E g \in cmds :
        /\ Len(g.history) = 2
        /\ g.history[1] = [ModelName |-> model1Name, Content |-> <<"x">>]
        /\ g.history[2] = [ModelName |-> model2Name, Content |-> <<"x", "x">>]
        /\ g.topic = <<"a", " ">>

\* C29. Once the state has left stateInput, no step changes the topic and
\* no step goes back to stateInput.
TopicImmutable ==
    [][state # stateInput
       => (topic' = topic /\ state' # stateInput)]_vars

\* A topic bound two commands ago, a failure handled, the debate stopped.
TopicImmutableWitness ==
    /\ state = stateStopped
    /\ topic = <<"a", "a">>
    /\ textInput = topic
    /\ nextGen = 3
    /\ errorMsg # ""

\* The answer lists the model: the request went through, the status is 200,
\* the body decodes, and one of its models has the name.
Lists(r, modelName) ==
    /\ r.connected
    /\ r.status = 200
    /\ r.parses
    /\ \E k \in 1..Len(r.models) : r.models[k].name = modelName

\* C30. A validation passes exactly when the answer lists the model; it
\* fails with the not-found error when the listing went through without the
\* model, and with the error of the listing when the listing failed; the
\* listing gives the names in the order of the answer.
ValidationExact ==
    \A i \in 1..Len(startup) :
        LET v == startup[i]
            r == v.resp
            listingFailed == ~r.connected \/ r.status # 200 \/ ~r.parses
        IN  /\ (v.err = NoErr) <=> Lists(r, v.modelName)
            /\ (~listingFailed /\ ~Lists(r, v.modelName))
                 => v.err = "model '" \o v.modelName \o "' not found in Ollama"
            /\ listingFailed
                 => v.err \in
                      {"failed to list models: failed to connect to Ollama",
                       "failed to list models: Ollama API returned status 500",
                       "failed to list models: failed to parse Ollama response"}
            /\ ~listingFailed
                 => /\ Len(v.listed) = Len(r.models)
                    /\ \A k \in 1..Len(r.models) : v.listed[k] = r.models[k].name

\* Both models validated, model2 found second in the listing.
ValidationExactWitness ==
    /\ Len(startup) = 2
    /\ startup[1].err = NoErr
    /\ startup[2].err = NoErr
    /\ startup[2].listed = <<model1Name, model2Name>>

\* The piece stands somewhere in p.
Has(p, piece) == \E i \in 1..Len(p) : p[i] = piece

\* The positions at which the pieces of sub stand in p, one after the other.
Holds(p, sub) == \E q \in 1..(Len(p) + 1) : At(p, q, sub)

\* C31. A prompt composed for a first turn carries the opening instruction
\* when the history is empty and the opposing instruction when it is not;
\* a prompt that is not for a first turn carries neither; the instruction
\* to engage with the previous points and the block of the formatted
\* history are there exactly when the history is not empty.
OpeningCases ==
    composed.called =>
        LET p == composed.prompt
            h == composed.history
        IN  /\ Has(p, OpeningInstruction)
                 <=> (composed.isFirstTurn /\ h = <<>>)
            /\ Has(p, OpposingInstruction)
                 <=> (composed.isFirstTurn /\ h # <<>>)
            /\ Has(p, NextInstruction) <=> (h # <<>>)
            /\ Has(p, FirstInstruction) <=> (h = <<>>)
            /\ Has(p, "Previous discussion:\n") <=> (h # <<>>)
            /\ h # <<>>
                 => Holds(p, <<"Previous discussion:\n">> \o composed.formatted
                                \o <<"\n">>)

\* A first-turn prompt over a history of one Turn: the opposing case.
OpeningCasesWitness ==
    /\ composed.called
    /\ composed.isFirstTurn
    /\ Len(composed.history) = 1
    /\ composed.currentModel = model2Name
    /\ Has(composed.prompt, OpposingInstruction)

\* Where the entry of Turn i starts in a formatted history: after the
\* entries before it (three pieces of tag and the content each) and one
\* separator for each of them.
RECURSIVE EntryStart(_, _)
EntryStart(h, i) ==
    IF i = 1 THEN 1
    ELSE EntryStart(h, i - 1) + 3 + Len(h[i - 1].Content) + 1

\* C34. FormatHistory of the empty history is the empty string; of K Turns
\* it is the K entries "[ModelName]: Content" in the order of the history,
\* one "\n\n" between two entries and nothing after the last.
FormatHistoryShape ==
    composed.called =>
        LET f == composed.formatted
            h == composed.history
            K == Len(h)
        IN  IF K = 0 THEN f = <<>>
            ELSE /\ Len(f) = EntryStart(h, K) + 3 + Len(h[K].Content) - 1
                 /\ \A i \in 1..K :
                       At(f, EntryStart(h, i),
                          <<"[", h[i].ModelName, "]: ">> \o h[i].Content)
                 /\ \A i \in 2..K : f[EntryStart(h, i) - 1] = "\n\n"

\* Two Turns formatted, the first with an empty content.
FormatHistoryShapeWitness ==
    /\ composed.called
    /\ Len(composed.history) = 2
    /\ composed.history[1].Content = <<>>
    /\ composed.formatted
         = <<"[", composed.history[1].ModelName, "]: ", "\n\n",
             "[", composed.history[2].ModelName, "]: ", "x">>

\* C32. The first command returned for model2 (the second command of a
\* run) composes its prompt as a first turn over a history that is not
\* empty: the prompt carries the opposing instruction.
SecondOpensOpposing ==
    \A g \in cmds :
        (g.id = 2 /\ g.modelName = model2Name)
        => /\ g.isFirstTurn
           /\ g.history # <<>>
           /\ Has(Prompt(g), OpposingInstruction)

\* C33. The request of every command a step returns names the model whose
\* turn it is after the step, asks for a stream, and carries a prompt
\* composed from the topic and the whole history as the step leaves them:
\* every Turn, in order.
RequestAsScheduled ==
    [][\A n \in Scheduled :
          /\ Request(n).Model = ModelOf(currentTurn')
          /\ Request(n).Stream
          /\ \E first \in BOOLEAN :
                Request(n).Prompt
                  = BuildDebatePrompt(topic', history', ModelOf(currentTurn'),
                                      first)
          /\ Holds(Request(n).Prompt, topic')
          /\ TurnsIn(Request(n).Prompt, 1, history')]_vars

\* The fourth command, for model2, over a history of two Turns.
RequestAsScheduledWitness ==
    \E g \in cmds :
        /\ g.id = 4
        /\ Request(g).Model = model2Name
        /\ Len(history) = 2
        /\ g.history = history

\* The texts of the increments in ss, joined in order.
RECURSIVE Joined(_)
Joined(ss) == IF ss = <<>> THEN <<>> ELSE Head(ss).text \o Joined(Tail(ss))

\* C35. A responseCompleteMsg carries the increments the client handed over,
\* joined in the order of the handoffs, and is returned only by a command
\* whose client sent no error.
CompleteOnlyOnSuccess ==
    (gen.msg # NoMsg /\ gen.msg.type = "responseCompleteMsg")
    => /\ gen.msg.fullResponse = Joined(gen.call.sent)
       /\ gen.call.err = NoErr

\* Both channels of the call are closed and the goroutine has returned.
Returned ==
    gen.call.pc = "done" /\ gen.call.errClosed /\ gen.call.respClosed

\* C36. With the goroutine scheduled and the receive loop running, the client
\* closes errorChan and responseChan, having written at most one error, and
\* the command then returns one message, complete or error, and no other.
GenerationTerminates ==
    /\ <>Returned
    /\ Returned ~> (gen.msg # NoMsg)
    /\ [](Len(gen.call.errChan) <= 1)
    /\ [][gen.call.err # NoErr
          => /\ gen'.call.err = gen.call.err
             /\ Len(gen'.call.errChan) <= Len(gen.call.errChan)]_vars
    /\ [](gen.msg # NoMsg
          => gen.msg.type \in {"responseCompleteMsg", "responseErrorMsg"})
    /\ [][gen.msg # NoMsg => gen'.msg = gen.msg]_vars

\* A call cancelled after one increment was taken: returned, and the command
\* returned the cancellation as its one message.
GenerationTerminatesWitness ==
    /\ Returned
    /\ gen.call.ctxDone
    /\ Len(gen.call.sent) = 1
    /\ gen.msg = ErrorMsg(ErrCanceled)

\* C37. The history is changed by a responseChunkMsg or a
\* responseCompleteMsg and by nothing else: enter (accepted or not), the
\* quit keys, any other key, a responseErrorMsg and a tea.WindowSizeMsg leave
\* the number of Turns and every Turn's ModelName and Content as they were.
HistoryFrame ==
    [][/\ history' # history
          => \/ \E chunk \in Increments : UpdateChunk(chunk)
             \/ \E g \in cmds, full \in Texts : UpdateComplete(g, full)
       /\ (\/ KeyEnter
           \/ KeyQuit
           \/ KeyOther
           \/ \E g \in cmds, e \in Errors : UpdateError(g, e)
           \/ \E msg \in Sizes : UpdateWindowSize(msg))
          => /\ Len(history') = Len(history)
             /\ \A i \in 1..Len(history) :
                   /\ history'[i].ModelName = history[i].ModelName
                   /\ history'[i].Content = history[i].Content]_vars

\* The terminal was resized during the debate, over a history of two Turns.
HistoryFrameWitness ==
    /\ Len(history) = 2
    /\ state = stateDebating
    /\ errorMsg # ""
    /\ window.vpWidth = 120

\* C38. isGenerating is set exactly when a command is in flight: set all
\* through stateDebating, clear in stateInput and in stateStopped, whether a
\* quit key or a stopDebateMsg stopped the debate.
FlagAccuracy ==
    /\ isGenerating <=> cmds # {}
    /\ state = stateDebating => isGenerating
    /\ state = stateInput => ~isGenerating
    /\ state = stateStopped => ~isGenerating

\* C39. currentTurn is 0 or 1: 0 when the accepted enter returns the first
\* command, and after k responseCompleteMsg and responseErrorMsg handled since
\* then (nextGen = k + 1 commands returned) 0 for k even and 1 for k odd:
\* each step that takes the message of a command in flight toggles it.  A
\* responseChunkMsg, a stopDebateMsg and the quit keys leave it as it is.
TurnParity ==
    /\ [](/\ currentTurn \in {0, 1}
          /\ nextGen = 0 => currentTurn = 0
          /\ nextGen >= 1 => currentTurn = (nextGen - 1) % 2)
    /\ [][/\ (KeyEnter /\ state = stateInput /\ ~Blank(textInput))
              => currentTurn' = 0 /\ nextGen' = 1
          /\ cmds \ cmds' # {}
              => nextGen' = nextGen + 1 /\ currentTurn' = 1 - currentTurn
          /\ (\/ \E chunk \in Increments : UpdateChunk(chunk)
              \/ UpdateStop
              \/ KeyQuit)
              => currentTurn' = currentTurn /\ nextGen' = nextGen]_vars

\* Three messages handled since the enter, a chunk applied since the last:
\* model2 is to speak.
TurnParityWitness ==
    /\ nextGen = 4
    /\ currentTurn = 1
    /\ accum # <<>>

\* C40. The state moves forward only: from stateInput to stateDebating or
\* to stateStopped, from stateDebating to stateStopped, and from stateStopped
\* nowhere.  No step enters stateError: a responseErrorMsg leaves the state
\* as it is.
StateMonotonic ==
    /\ [](state \in {stateInput, stateDebating, stateStopped})
    /\ [][\/ state' = state
          \/ state = stateInput /\ state' \in {stateDebating, stateStopped}
          \/ state = stateDebating /\ state' = stateStopped]_vars
    /\ [][\A g \in cmds, e \in Errors :
             UpdateError(g, e) => state' = state]_vars

\* Stopped after a debate in which one generation failed and another
\* completed.
StateMonotonicWitness ==
    /\ state = stateStopped
    /\ errorMsg # ""
    /\ Len(history) = 1
    /\ nextGen = 3

====
